---- MODULE Spec2Model ----
(***************************************************************************)
(* State-machine model of aigit.py: the session / change lifecycle of the  *)
(* AI-driven git tool (AIGitTool and the AIGitREPL commands that drive it) *)
(* over an abstract git repository (branches, commits, index, work tree).  *)
(***************************************************************************)
EXTENDS Integers, Sequences, FiniteSets, TLC

(***************************************************************************)
(* Bounds of the model.                                                     *)
(***************************************************************************)
\* commits the object database may hold (ids 1..MaxCommits)
MaxCommits == 3
\* records update_documentation may append to one session's history
MaxHistory == 1
\* records one session's history may reach where the history is followed
MaxRecords == 2
\* clock readings (datetime.now()) are drawn from 1..MaxTime
MaxTime == 1

Times == 1..MaxTime

\* repository-relative source paths the backend may edit
Paths == {"a.py", "b.py"}

\* branch names, and the names the user asks new-branch to create
BranchNames == {"main", "master", "feat-x"}
NewBranchArgs == {"feat-x"}

\* arguments of update_documentation: the prompt and the keys of `changes`
Prompts == {"p"}
ChangedPaths == {<<"a.py">>}

\* the backtick character (the module's strings cannot hold it)
Tick == "BACKTICK"
FileMarker == <<"F", "I", "L", "E", ":", " ">>
Fence == <<Tick, Tick, Tick>>

\* pieces of a backend answer: a "FILE: <path>" line and a fenced block
FileLine(path) == FileMarker \o path \o <<"\n">>
Block(content) == Fence \o <<"\n">> \o content \o <<"\n">> \o Fence
APy == <<"a", ".", "p", "y">>

\* what the backend may answer: an error, or one of these texts
Responses ==
  { <<"x", "\n">> \o FileLine(APy) \o Block(<<"1">>),
    FileLine(APy) \o Block(<<"2">>),
    <<"n", "o", " ", "c", "h", "a", "n", "g", "e", "s">> }
BackendReplies ==
  {[status |-> "error", response |-> <<>>]}
    \cup {[status |-> "ok", response |-> r] : r \in Responses}
\* the longest batch of edits a response of the model holds
MaxEdits == 2

\* answers built section by section.  Section i names the i-th path and
\* holds the content "i"; its kind says how it is laid out:
\*   "ok"       FILE: <path>, an opening fence, the content, a closing fence
\*   "nofence"  FILE: <path>, the content, no fence at all
\*   "open"     FILE: <path>, an opening fence, the content, no closing fence
SectionKinds == {"ok", "nofence", "open"}
BPy == <<"b", ".", "p", "y">>
SectionPath(i) == IF i = 1 THEN APy ELSE BPy
SectionContent(i) == <<ToString(i)>>
SectionText(kind, i) ==
  FileLine(SectionPath(i))
    \o (IF kind = "nofence" THEN <<>> ELSE Fence \o <<"\n">>)
    \o SectionContent(i) \o <<"\n">>
    \o (IF kind = "ok" THEN Fence \o <<"\n">> ELSE <<>>)

\* the layout of an answer: an explanation or none, then 0..MaxEdits sections
Shapes ==
  [prefix : {<<>>, <<"x", "\n">>},
   kinds : UNION {[1..n -> SectionKinds] : n \in 0..MaxEdits}]

RECURSIVE SectionsText(_, _)
SectionsText(kinds, n) ==
  IF n = 0 THEN <<>> ELSE SectionsText(kinds, n - 1) \o SectionText(kinds[n], n)
\* the text of an answer laid out as `shape`
Render(shape) == shape.prefix \o SectionsText(shape.kinds, Len(shape.kinds))
ShapedReplies == {[status |-> "ok", response |-> Render(d)] : d \in Shapes}

\* docs_dir / f"{branch_name}.md"
DocPath(b) == "ai-tool-docs/" \o b \o ".md"
DocFiles == {DocPath(b) : b \in BranchNames}
Files == Paths \cup DocFiles

VARIABLES
  running,        \* a process (main -> AIGitREPL -> AIGitTool) is alive
  session,        \* AIGitTool.session: None or a Session
  session_file,   \* .git/ai-tool-session.pickle
  heads,          \* repo.heads: branch name -> commit id
  active_branch,  \* repo.active_branch (HEAD)
  commits,        \* object database: commit id -> [parents, tree]
  index,          \* the git index (staging area): file -> content
  worktree,       \* the files on disk: file -> content
  last            \* the last command: its name, argument, outcome and cause

vars == <<running, session, session_file, heads, active_branch, commits,
          index, worktree, last>>

\* what the last command was and how it ended: `ret` is what the tool method
\* returned ("True", "False", "None", "hash"), "raised" when it raised, or
\* "rejected" when the command returned before calling the tool; `stopped`
\* is the session the process held when it stopped
Last(op, arg, ret, cause) ==
  [op |-> op, arg |-> arg, ret |-> ret, cause |-> cause,
   stopped |-> [none |-> TRUE]]

Stopped(op, held) ==
  [op |-> op, arg |-> "", ret |-> "none", cause |-> "none", stopped |-> held]

Bool(b) == IF b THEN "True" ELSE "False"

(***************************************************************************)
(* Session (dataclass) and its persisted form.                             *)
(***************************************************************************)
None == [none |-> TRUE]

Session(branch, context_files, changes_history, created_at) ==
  [branch |-> branch, context_files |-> context_files,
   changes_history |-> changes_history, created_at |-> created_at]

NoFile == [kind |-> "absent"]
CorruptFile == [kind |-> "corrupt"]

RECURSIVE SetToSeq(_)
\* the items of a set in the order pickle writes them (the set's iteration
\* order: some fixed order)
SetToSeq(S) ==
  IF S = {} THEN <<>>
  ELSE LET x == CHOOSE y \in S : TRUE
       IN  <<x>> \o SetToSeq(S \ {x})
\* set(items): the set rebuilt from the pickled items
SeqToSet(q) == {q[i] : i \in 1..Len(q)}

\* pickle.dump(self.session, f): the blob names the object's class and holds
\* its __dict__ field by field: the str fields as they are, the list in its
\* order, the set as the run of its items
PickleDump(s) ==
  [kind |-> "pickle", cls |-> "Session",
   state |-> [branch |-> s.branch,
              context_files |-> SetToSeq(s.context_files),
              changes_history |-> s.changes_history,
              created_at |-> s.created_at]]
\* pickle.load(f): raises on a blob that is not a pickle
PickleLoads(f) == f.kind = "pickle"
\* (mutant: the context files are not restored)
PickleLoadMutant(f) ==
  Session(f.state.branch, {}, f.state.changes_history, f.state.created_at)
\* pickle.load(f): the object rebuilt from the blob
PickleLoad(f) ==
  Session(f.state.branch, SeqToSet(f.state.context_files),
          f.state.changes_history, f.state.created_at)

\* the four header lines _init_documentation writes
HeaderRow == [timestamp |-> 0, prompt |-> "# AI-Assisted Changes", changes |-> <<>>, commit |-> 0]

(***************************************************************************)
(* Files.  A file is absent or holds data: the characters of a source      *)
(* file, or the rows of a documentation log.                               *)
(***************************************************************************)
Absent == [exists |-> FALSE, data |-> <<>>]
File(data) == [exists |-> TRUE, data |-> data]
EmptyTree == [p \in Files |-> Absent]

(***************************************************************************)
(* The git capability.                                                      *)
(***************************************************************************)
HeadCommit == heads[active_branch]
TreeOf(c) == commits[c].tree
NCommits == Len(commits)

\* c^ : the first parent of c, 0 when c is a root commit
FirstParent(c) == IF Len(commits[c].parents) = 0 THEN 0 ELSE commits[c].parents[1]

RECURSIVE Ancestors(_)
\* c and every commit reachable from it
Ancestors(c) ==
  {c} \cup UNION {Ancestors(commits[c].parents[i]) : i \in 1..Len(commits[c].parents)}

\* the best common ancestor of two commits, 0 when the histories are unrelated
MergeBase(a, b) ==
  LET common == Ancestors(a) \cap Ancestors(b)
      best == {c \in common : \A d \in common \ {c} : c \notin Ancestors(d)}
  IN  IF common = {} THEN 0
      ELSE CHOOSE c \in best : \A d \in best : c >= d

\* repo.is_dirty(): staged or unstaged changes to tracked files; untracked
\* files are not counted (untracked_files defaults to False)
IsDirty ==
  \/ index # TreeOf(HeadCommit)
  \/ \E p \in Files : index[p].exists /\ worktree[p] # index[p]

\* repo.untracked_files
UntrackedFiles == {p \in Files : ~index[p].exists /\ worktree[p].exists}

\* repo.index.diff(None): tracked files whose content on disk differs
IndexDiffNone == {p \in Files : index[p].exists /\ worktree[p] # index[p]}

\* git refuses to move from tree `from` to tree `to` when a file that differs
\* between them has local changes or is an untracked file in the way
WouldOverwrite(idx, wt, from, to) ==
  \E p \in Files : from[p] # to[p] /\ wt[p] # idx[p]

\* the index or the work tree `f` after git has moved it from `from` to `to`
MoveFiles(f, from, to) ==
  [p \in Files |-> IF from[p] # to[p] THEN to[p] ELSE f[p]]

\* three-way merge of one file: the side that changed it wins
MergedFile(base, ours, theirs) ==
  IF ours = theirs THEN ours
  ELSE IF base = ours THEN theirs
  ELSE ours

\* both sides changed the file, differently
FileConflicts(base, ours, theirs) ==
  ours # theirs /\ base # ours /\ base # theirs

MergedTree(base, ours, theirs) ==
  [p \in Files |-> MergedFile(base[p], ours[p], theirs[p])]

\* what `git merge <theirs>` does with HEAD at commit `ours`
MergeKind(ours, theirs) ==
  IF theirs \in Ancestors(ours) THEN "up_to_date"
  ELSE IF ours \in Ancestors(theirs) THEN "fast_forward"
  ELSE IF MergeBase(ours, theirs) = 0 THEN "unrelated"
  ELSE "three_way"

\* index.add('*'): every file on disk is staged with its content
IndexAdd(idx, wt) ==
  [p \in Files |-> IF wt[p].exists THEN wt[p] ELSE idx[p]]

\* the state a tool method leaves behind, with what it returned
Outcome(ret, cause, hash, h, ab, cs, idx, wt) ==
  [ret |-> ret, cause |-> cause, hash |-> hash, heads |-> h,
   active_branch |-> ab, commits |-> cs, index |-> idx, worktree |-> wt]

Unchanged(ret, cause) ==
  Outcome(ret, cause, 0, heads, active_branch, commits, index, worktree)

(***************************************************************************)
(* AIGitTool._load_session, _save_session, clear_session.                  *)
(***************************************************************************)
\* (mutant: a failed read is not noticed)
LoadSessionMutant(file, readFails) ==
  IF file.kind = "pickle" THEN PickleLoad(file) ELSE None
\* _load_session: the pickled session, None when the file is absent or
\* cannot be read or un-pickled (the error is logged)
LoadSession(file, readFails) ==
  IF file.kind = "absent" THEN None
  ELSE IF readFails \/ ~PickleLoads(file) THEN None
  ELSE PickleLoad(file)

\* (mutant: a session file that exists is not overwritten)
SaveSessionFileMutant(s, file, fault) ==
  IF s # None /\ file.kind = "absent" THEN PickleDump(s) ELSE file
\* _save_session: the session file after a save with outcome `fault`:
\* "save_open" (open fails, file untouched), "save_dump" (the file was
\* truncated by open(..., 'wb') and the dump fails), anything else succeeds.
\* A no-op when no session is active.
SaveSessionFile(s, file, fault) ==
  IF s = None THEN file
  ELSE IF fault = "save_open" THEN file
  ELSE IF fault = "save_dump" THEN CorruptFile
  ELSE PickleDump(s)

SaveRaises(s, fault) == s # None /\ fault \in {"save_open", "save_dump"}

(***************************************************************************)
(* AIGitTool.create_branch and _init_documentation.                        *)
(***************************************************************************)
CreateFaults == {"none", "create_head", "checkout", "save_open", "save_dump", "doc_open"}

\* (mutant: the existence check is lost)
BranchExistsMutant(branch_name) == FALSE
\* `branch_name in self.repo.heads`
BranchExists(branch_name) == branch_name \in DOMAIN heads

\* _init_documentation: open(doc_path, 'w') raises when the log cannot be
\* opened for writing (its directory is missing or read-only)
InitDocRaises(branch_name, fault) == fault = "doc_open"

InitDocumentation(wt, branch_name) ==
  [wt EXCEPT ![DocPath(branch_name)] = File(<<HeaderRow>>)]

\* how far create_branch gets: the number of its statements that complete
\*   0 the branch exists          1 create_head raised
\*   2 checkout raised            3 _save_session raised
\*   4 _init_documentation raised 5 returned True
CreateProgress(branch_name, fault) ==
  IF BranchExists(branch_name) THEN 0
  ELSE IF fault = "create_head" THEN 1
  ELSE IF fault = "checkout" THEN 2
  ELSE IF fault \in {"save_open", "save_dump"} THEN 3
  ELSE IF InitDocRaises(branch_name, fault) THEN 4
  ELSE 5

create_branch(branch_name, now, fault) ==
  LET n == CreateProgress(branch_name, fault)
      new == Session(branch_name, {}, <<>>, now)
  IN  [ret |-> (n = 5),
       cause |-> CASE n = 0 -> "exists"
                   [] n = 1 -> "create_head"
                   [] n = 2 -> "checkout"
                   [] n = 3 -> "save"
                   [] n = 4 -> "doc"
                   [] OTHER -> "none",
       heads |-> IF n >= 2
                 THEN [b \in DOMAIN heads \cup {branch_name} |->
                         IF b = branch_name THEN HeadCommit ELSE heads[b]]
                 ELSE heads,
       active_branch |-> IF n >= 3 THEN branch_name ELSE active_branch,
       session |-> IF n >= 3 THEN new ELSE session,
       session_file |-> IF n >= 3 THEN SaveSessionFile(new, session_file, fault)
                        ELSE session_file,
       worktree |-> IF n = 5 THEN InitDocumentation(worktree, branch_name)
                    ELSE worktree]

(***************************************************************************)
(* AIGitTool.update_documentation.                                         *)
(***************************************************************************)
DocFaults == {"none", "doc_open", "save_open"}

\* open(doc_path, 'a') raises when the log cannot be opened for appending
UpdateDocRaises(branch, fault) == fault = "doc_open"

\* the record appended to session.changes_history and the row of the log
ChangeRecord(timestamp, prompt, changes, commit_hash) ==
  [timestamp |-> timestamp, prompt |-> prompt, changes |-> changes,
   commit |-> commit_hash]

\* f.write of one row to a file opened in append mode
AppendRow(wt, branch, row) ==
  [wt EXCEPT ![DocPath(branch)] = File(@.data \o <<row>>)]

\* (mutant: the history keeps only the latest record)
update_documentation_latest(prompt, changes, commit_hash, now, fault) ==
  LET row == ChangeRecord(now, prompt, changes, commit_hash)
      appended == [session EXCEPT !.changes_history = <<row>>]
  IN  IF session = None \/ UpdateDocRaises(session.branch, fault)
      THEN [cause |-> "doc", session |-> session,
            session_file |-> session_file, worktree |-> worktree]
      ELSE [cause |-> IF SaveRaises(appended, fault) THEN "save" ELSE "none",
            session |-> appended,
            session_file |-> SaveSessionFile(appended, session_file, fault),
            worktree |-> AppendRow(worktree, session.branch, row)]
\* the session, the session file and the work tree after
\* update_documentation(prompt, changes, commit_hash); it returns None and
\* never raises
update_documentation(prompt, changes, commit_hash, now, fault) ==
  LET row == ChangeRecord(now, prompt, changes, commit_hash)
      appended == [session EXCEPT !.changes_history = Append(@, row)]
  IN  IF session = None
      THEN [cause |-> "no_session", session |-> session,
            session_file |-> session_file, worktree |-> worktree]
      ELSE IF UpdateDocRaises(session.branch, fault)
      THEN [cause |-> "doc", session |-> session,
            session_file |-> session_file, worktree |-> worktree]
      ELSE [cause |-> IF SaveRaises(appended, fault) THEN "save" ELSE "none",
            session |-> appended,
            session_file |-> SaveSessionFile(appended, session_file, fault),
            worktree |-> AppendRow(worktree, session.branch, row)]

(***************************************************************************)
(* AIGitTool.commit_changes and rollback.                                  *)
(***************************************************************************)
CommitFaults == {"none", "add", "commit"}

\* index.commit(message): a new commit of the index on top of HEAD
NewCommit(idx) == [parents |-> <<HeadCommit>>, tree |-> idx]

commit_changes(message, fault) ==
  LET staged == IndexAdd(index, worktree)
      id == NCommits + 1
  IN  IF fault = "add" THEN Unchanged("None", "add")
      ELSE IF fault = "commit"
      THEN Outcome("None", "commit", 0, heads, active_branch, commits, staged,
                   worktree)
      ELSE Outcome("hash", "none", id,
                   [heads EXCEPT ![active_branch] = id], active_branch,
                   Append(commits, NewCommit(staged)), staged, worktree)

RollbackFaults == {"none", "reset"}

\* (mutant: the reset goes to HEAD instead of HEAD^)
ResetTargetMutant(c) == c
\* HEAD^ names no commit when HEAD is a root commit: git reset then fails
\* before it touches anything
ResetTarget(c) == FirstParent(c)

\* git reset --hard <target>: the branch, the index and every tracked file
\* are set to the target commit; untracked files are left alone
ResetHardWorktree(target) ==
  [p \in Files |->
     IF index[p].exists \/ TreeOf(HeadCommit)[p].exists \/ TreeOf(target)[p].exists
     THEN TreeOf(target)[p] ELSE worktree[p]]

rollback(fault) ==
  LET target == ResetTarget(HeadCommit)
  IN  IF target = 0 THEN Unchanged("False", "no_parent")
      ELSE IF fault = "reset" THEN Unchanged("False", "reset")
      ELSE Outcome("True", "none", 0,
                   [heads EXCEPT ![active_branch] = target], active_branch,
                   commits, TreeOf(target), ResetHardWorktree(target))

(***************************************************************************)
(* AIGitTool.merge_to_main.                                                *)
(***************************************************************************)
MergeFaults == {"none", "checkout", "merge"}

\* `git merge --abort` with a merge in progress: the index and the work tree
\* go back to what they were when the merge started
MergeAbort(idx, wt) == [index |-> idx, worktree |-> wt]

\* (mutant: the handler aborts the merge and forgets current.checkout())
AbortAndReturnMutant(current, idx, wt) ==
  Outcome("False", "conflict", 0, heads, "main", commits, idx, wt)
\* the handler of a merge conflict: merge --abort, then current.checkout()
\* (idx, wt: the index and work tree on main, as the merge found them)
AbortAndReturn(current, idx, wt) ==
  LET back == MergeAbort(idx, wt)
      mainT == TreeOf(heads["main"])
      curT == TreeOf(heads[current])
  IN  IF WouldOverwrite(back.index, back.worktree, mainT, curT)
      THEN \* current.checkout() raises inside the handler; the outer handler's
           \* merge --abort finds no merge and raises
           Outcome("raised", "checkout_back", 0, heads, "main", commits,
                   back.index, back.worktree)
      ELSE Outcome("False", "conflict", 0, heads, current, commits,
                   MoveFiles(back.index, mainT, curT),
                   MoveFiles(back.worktree, mainT, curT))

\* `git merge <session.branch>` with main checked out (idx, wt: the index and
\* the work tree after the checkout of main)
MergeOnMain(current, idx, wt, fault) ==
  LET ours == heads["main"]
      theirs == heads[session.branch]
      oursT == TreeOf(ours)
      kind == MergeKind(ours, theirs)
      \* every failure of the merge command that leaves no merge in progress:
      \* merge --abort raises in the handler and again in the outer handler,
      \* so the exception leaves merge_to_main with main checked out
      stranded(cause) ==
        Outcome("raised", cause, 0, heads, "main", commits, idx, wt)
  IN  IF session = None THEN stranded("no_session")
      ELSE IF session.branch \notin DOMAIN heads THEN stranded("no_branch")
      ELSE IF fault = "merge" THEN stranded("merge")
      ELSE IF kind = "up_to_date"
      THEN Outcome("True", "up_to_date", 0, heads, "main", commits, idx, wt)
      ELSE IF kind = "unrelated" THEN stranded("unrelated")
      ELSE IF kind = "fast_forward"
      THEN IF WouldOverwrite(idx, wt, oursT, TreeOf(theirs))
           THEN stranded("overwrite")
           ELSE Outcome("True", "fast_forward", 0,
                        [heads EXCEPT !["main"] = theirs], "main", commits,
                        MoveFiles(idx, oursT, TreeOf(theirs)),
                        MoveFiles(wt, oursT, TreeOf(theirs)))
      ELSE LET baseT == TreeOf(MergeBase(ours, theirs))
               merged == MergedTree(baseT, oursT, TreeOf(theirs))
               id == NCommits + 1
           IN  IF WouldOverwrite(idx, wt, oursT, merged)
               THEN stranded("overwrite")
               ELSE IF \E p \in Files :
                         FileConflicts(baseT[p], oursT[p], TreeOf(theirs)[p])
               THEN AbortAndReturn(current, idx, wt)
               ELSE Outcome("True", "merged", id,
                            [heads EXCEPT !["main"] = id], "main",
                            Append(commits,
                                   [parents |-> <<ours, theirs>>, tree |-> merged]),
                            MoveFiles(idx, oursT, merged),
                            MoveFiles(wt, oursT, merged))

merge_to_main(fault) ==
  LET current == active_branch
      fromT == TreeOf(HeadCommit)
  IN  IF "main" \notin DOMAIN heads THEN Unchanged("False", "no_main")
      ELSE IF IsDirty THEN Unchanged("False", "dirty")
      ELSE IF fault = "checkout"
              \/ WouldOverwrite(index, worktree, fromT, TreeOf(heads["main"]))
      THEN \* main.checkout() raises; merge --abort finds no merge and raises
           \* in the handler and again in the outer handler
           Unchanged("raised", "checkout")
      ELSE MergeOnMain(current,
                       MoveFiles(index, fromT, TreeOf(heads["main"])),
                       MoveFiles(worktree, fromT, TreeOf(heads["main"])),
                       fault)

(***************************************************************************)
(* Strings are sequences of one-character strings; the operators below do  *)
(* what the str methods of the parser do.                                  *)
(***************************************************************************)
Min(S) == CHOOSE x \in S : \A y \in S : x <= y
Max(S) == CHOOSE x \in S : \A y \in S : x >= y

Whitespace == {" ", "\n", "\t"}

\* the places (from 1) where pat occurs in s
Occurrences(s, pat) ==
  {i \in 1..(Len(s) - Len(pat) + 1) : SubSeq(s, i, i + Len(pat) - 1) = pat}

\* s.find(pat), s.rfind(pat): a 0-based index, -1 when pat does not occur
StrFind(s, pat) ==
  IF Occurrences(s, pat) = {} THEN -1 ELSE Min(Occurrences(s, pat)) - 1
StrRFind(s, pat) ==
  IF Occurrences(s, pat) = {} THEN -1 ELSE Max(Occurrences(s, pat)) - 1

\* s[a:b] for 0 <= a
Slice(s, a, b) == SubSeq(s, a + 1, b)

RECURSIVE StrSplit(_, _)
\* s.split(pat)
StrSplit(s, pat) ==
  LET i == StrFind(s, pat)
  IN  IF i = -1 THEN <<s>>
      ELSE <<Slice(s, 0, i)>> \o StrSplit(Slice(s, i + Len(pat), Len(s)), pat)

\* s.split('\n', 1)[0]
FirstLine(s) ==
  LET i == StrFind(s, <<"\n">>) IN IF i = -1 THEN s ELSE Slice(s, 0, i)

RECURSIVE LStrip(_)
LStrip(s) == IF s # <<>> /\ Head(s) \in Whitespace THEN LStrip(Tail(s)) ELSE s
RECURSIVE RStrip(_)
RStrip(s) ==
  IF s # <<>> /\ s[Len(s)] \in Whitespace THEN RStrip(SubSeq(s, 1, Len(s) - 1))
  ELSE s
\* s.strip()
Strip(s) == LStrip(RStrip(s))

RECURSIVE Join(_)
\* the string of a sequence of characters
Join(s) == IF s = <<>> THEN "" ELSE Head(s) \o Join(Tail(s))

(***************************************************************************)
(* AIGitREPL._parse_ollama_response.                                       *)
(***************************************************************************)
\* changes[filename] = file_content on a dict kept in insertion order
DictSet(d, k, v) ==
  IF \E i \in 1..Len(d) : d[i].path = k
  THEN [i \in 1..Len(d) |-> IF d[i].path = k THEN [path |-> k, content |-> v]
                            ELSE d[i]]
  ELSE Append(d, [path |-> k, content |-> v])

\* (mutant: a malformed section throws away the edits found so far)
ParseSectionMutant(changes, section) ==
  IF StrFind(section, Fence) + 3 > 2
       /\ StrRFind(section, Fence) > StrFind(section, Fence) + 3
  THEN DictSet(changes, Join(Strip(FirstLine(section))),
               Strip(Slice(section, StrFind(section, Fence) + 3,
                           StrRFind(section, Fence))))
  ELSE <<>>
\* (mutant: the closing fence is not required)
ParseSectionLoose(changes, section) ==
  IF StrFind(section, Fence) + 3 > 2
  THEN DictSet(changes, Join(Strip(FirstLine(section))),
               Strip(Slice(section, StrFind(section, Fence) + 3,
                           StrRFind(section, Fence))))
  ELSE changes
\* the body of the loop over sections[1:] for one section
ParseSection(changes, section) ==
  LET filename == Strip(FirstLine(section))
      content_start == StrFind(section, Fence) + 3
      content_end == StrRFind(section, Fence)
  IN  IF content_start > 2 /\ content_end > content_start
      THEN DictSet(changes, Join(filename),
                   Strip(Slice(section, content_start, content_end)))
      ELSE changes

RECURSIVE ParseSections(_, _)
ParseSections(changes, sections) ==
  IF sections = <<>> THEN changes
  ELSE ParseSections(ParseSection(changes, Head(sections)), Tail(sections))

\* the dict _parse_ollama_response builds; when it is empty the method
\* raises ValueError("No valid changes found in response")
ParseOllamaResponse(content) ==
  ParseSections(<<>>, Tail(StrSplit(content, FileMarker)))

(***************************************************************************)
(* AIGitTool.apply_changes.                                                *)
(***************************************************************************)
\* open(full_path, 'w') raises for a path that is not a writable file (the
\* empty path names the repository directory itself) and when write number
\* failAt fails
WriteRaises(changes, i, failAt) ==
  changes[i].path \notin Files \/ i = failAt

\* the number of writes that complete
WritesDone(changes, failAt) ==
  LET bad == {i \in 1..Len(changes) : WriteRaises(changes, i, failAt)}
  IN  IF bad = {} THEN Len(changes) ELSE Min(bad) - 1

RECURSIVE WriteFiles(_, _, _)
\* the work tree after the first n writes
WriteFiles(wt, changes, n) ==
  IF n = 0 THEN wt
  ELSE [WriteFiles(wt, changes, n - 1) EXCEPT
          ![changes[n].path] = File(changes[n].content)]

\* (mutant: a failed batch is undone)
apply_changes_undo(changes, failAt) ==
  LET n == WritesDone(changes, failAt)
  IN  [ret |-> (n = Len(changes)), done |-> n,
       worktree |-> IF n = Len(changes) THEN WriteFiles(worktree, changes, n)
                    ELSE worktree]
\* apply_changes: what it returns, the writes that completed, the work tree
apply_changes(changes, failAt) ==
  LET n == WritesDone(changes, failAt)
  IN  [ret |-> (n = Len(changes)), done |-> n,
       worktree |-> WriteFiles(worktree, changes, n)]

(***************************************************************************)
(* Initial state: a repository with one root commit on its default branch, *)
(* a clean work tree, no session file, no process.                         *)
(***************************************************************************)
InitTree == [EmptyTree EXCEPT !["a.py"] = File(<<"0">>)]

Init ==
  /\ running = FALSE
  /\ session = None
  /\ session_file = NoFile
  /\ \E b \in {"main", "master"} :
       /\ heads = [x \in {b} |-> 1]
       /\ active_branch = b
  /\ commits = <<[parents |-> <<>>, tree |-> InitTree]>>
  /\ index = InitTree
  /\ worktree = InitTree
  /\ last = Last("init", "", "none", "none")

(***************************************************************************)
(* Process lifecycle: main().                                              *)
(***************************************************************************)
\* the default of GitToolConfig.structural_patterns
DefaultPatterns ==
  <<"package.json", "requirements.txt", "go.mod", "Cargo.toml", "setup.py">>

\* what .git/ai-tool-config.json may be when the tool starts: absent, a JSON
\* object with or without the key, a file that is not JSON, a file that
\* cannot be opened
ConfigFiles ==
  { [kind |-> "absent"],
    [kind |-> "patterns", data |-> [structural_patterns |-> <<"pyproject.toml">>]],
    [kind |-> "no_key", data |-> [model |-> "llama3"]],
    [kind |-> "unparseable"],
    [kind |-> "unreadable"] }

\* _load_config: open() or json.load() raises
LoadConfigRaises(cfg) == cfg.kind \in {"unparseable", "unreadable"}
\* _load_config: the dict it returns
LoadConfig(cfg) == IF cfg.kind = "absent" THEN [none |-> TRUE] ELSE cfg.data
\* GitToolConfig.__init__: _load_config().get('structural_patterns', default)
StructuralPatterns(cfg) ==
  IF "structural_patterns" \in DOMAIN LoadConfig(cfg)
  THEN LoadConfig(cfg).structural_patterns
  ELSE DefaultPatterns

\* main: AIGitREPL(repo_path) -> AIGitTool.__init__ -> GitToolConfig, then
\* _load_session.  An exception of the constructor is caught in main, which
\* logs "Fatal error" and exits with status 1 (no REPL object, no cleanup).
Start(readFails, cfg) ==
  /\ ~running
  /\ IF LoadConfigRaises(cfg)
     THEN /\ last' = Last("start", cfg.kind, "raised", "config")
          /\ UNCHANGED <<running, session>>
     ELSE /\ running' = TRUE
          /\ session' = LoadSession(session_file, readFails)
          /\ last' = Last("start", cfg.kind, "none",
                          IF readFails /\ session_file.kind # "absent"
                          THEN "read_error" ELSE "none")
  /\ UNCHANGED <<session_file, heads, active_branch, commits, index, worktree>>

\* (mutant: the session file is not unlinked)
ClearSessionFileMutant(file) == file
\* clear_session: the session file is unlinked if it exists
ClearSessionFile(file) == NoFile

\* the REPL loop ends (exit, quit, end of input) or a handled signal raises
\* SystemExit; main's finally clause then runs clear_session
Exit(how) ==
  /\ running
  /\ running' = FALSE
  /\ session' = None
  /\ session_file' = ClearSessionFile(session_file)
  /\ last' = Stopped("exit", session)
  /\ UNCHANGED <<heads, active_branch, commits, index, worktree>>

\* the process dies without unwinding (SIGKILL, power loss)
Kill ==
  /\ running
  /\ running' = FALSE
  /\ session' = None
  /\ last' = Stopped("kill", session)
  /\ UNCHANGED <<session_file, heads, active_branch, commits, index, worktree>>

(***************************************************************************)
(* REPL commands.                                                           *)
(***************************************************************************)
\* cmd_new_branch
CmdNewBranch(args, now, fault) ==
  /\ running
  /\ LET r == create_branch(args, now, fault)
     IN  /\ heads' = r.heads
         /\ active_branch' = r.active_branch
         /\ session' = r.session
         /\ session_file' = r.session_file
         /\ worktree' = r.worktree
         /\ last' = Last("new-branch", args, Bool(r.ret), r.cause)
  /\ UNCHANGED <<running, commits, index>>

\* the git state a tool method left behind
GitBecomes(r) ==
  /\ heads' = r.heads
  /\ active_branch' = r.active_branch
  /\ commits' = r.commits
  /\ index' = r.index
  /\ worktree' = r.worktree

Rejected(op, cause) ==
  /\ last' = Last(op, "", "rejected", cause)
  /\ UNCHANGED <<session, session_file, heads, active_branch, commits, index,
                 worktree>>

\* cmd_commit
CmdCommit(args, fault) ==
  /\ running
  /\ NCommits < MaxCommits
  /\ IF session = None THEN Rejected("commit", "no_session")
     ELSE IF args = "" THEN Rejected("commit", "no_message")
     ELSE IF IndexDiffNone = {} /\ UntrackedFiles = {}
     THEN Rejected("commit", "no_changes")
     ELSE LET r == commit_changes(args, fault)
          IN  /\ GitBecomes(r)
              /\ last' = Last("commit", "", r.ret, r.cause)
              /\ UNCHANGED <<session, session_file>>
  /\ UNCHANGED running

\* cmd_rollback
CmdRollback(fault) ==
  /\ running
  /\ LET r == rollback(fault)
     IN  /\ GitBecomes(r)
         /\ last' = Last("rollback", "", r.ret, r.cause)
  /\ UNCHANGED <<running, session, session_file>>

\* cmd_merge
CmdMerge(confirm, fault) ==
  /\ running
  /\ merge_to_main(fault).hash <= MaxCommits
  /\ IF session = None THEN Rejected("merge", "no_session")
     ELSE IF confirm # "yes" THEN Rejected("merge", "cancelled")
     ELSE LET r == merge_to_main(fault)
          IN  /\ GitBecomes(r)
              /\ last' = Last("merge", "", r.ret, r.cause)
              /\ UNCHANGED <<session, session_file>>
  /\ UNCHANGED running

\* a call of AIGitTool.update_documentation (recordChange)
UpdateDocumentation(prompt, changes, commit_hash, now, fault) ==
  /\ running
  /\ LET r == update_documentation(prompt, changes, commit_hash, now, fault)
     IN  /\ session' = r.session
         /\ session_file' = r.session_file
         /\ worktree' = r.worktree
         /\ last' = Last("update_documentation", "", "None", r.cause)
  /\ UNCHANGED <<running, heads, active_branch, commits, index>>

\* cmd_prompt: make_ollama_request, _parse_ollama_response, apply_changes
CmdPrompt(args, reply, failAt) ==
  /\ running
  /\ IF session = None THEN Rejected("prompt", "no_session")
     ELSE IF args = "" THEN Rejected("prompt", "no_prompt")
     ELSE LET changes == ParseOllamaResponse(reply.response)
              r == apply_changes(changes, failAt)
          IN  IF reply.status # "ok"
              THEN /\ last' = Last("prompt", reply.response, "raised", "backend")
                   /\ UNCHANGED worktree
              ELSE IF changes = <<>>
              THEN /\ last' = Last("prompt", reply.response, "raised",
                                   "no_changes")
                   /\ UNCHANGED worktree
              ELSE /\ last' = Last("prompt", reply.response, Bool(r.ret),
                                   IF r.ret THEN "none"
                                   ELSE "write" \o ToString(r.done + 1))
                   /\ worktree' = r.worktree
  /\ UNCHANGED <<running, session, session_file, heads, active_branch,
                 commits, index>>

\* the tree of an upstream commit: main's tree with a.py rewritten
UpstreamTree == [TreeOf(heads["main"]) EXCEPT !["a.py"] = File(<<"2">>)]

\* cmd_shell: the user's shell runs in the repository; here it fetches one
\* upstream commit into main (git fetch <remote> main:main), which git allows
\* while another branch is checked out
CmdShell ==
  /\ running
  /\ NCommits < MaxCommits
  /\ IF session = None THEN Rejected("shell", "no_session")
     ELSE IF "main" \notin DOMAIN heads \/ active_branch = "main"
     THEN Rejected("shell", "nothing_fetched")
     ELSE /\ commits' = Append(commits, [parents |-> <<heads["main"]>>,
                                         tree |-> UpstreamTree])
          /\ heads' = [heads EXCEPT !["main"] = NCommits + 1]
          /\ last' = Last("shell", "", "none", "fetched")
          /\ UNCHANGED <<session, session_file, active_branch, index, worktree>>
  /\ UNCHANGED running

(***************************************************************************)
(* Context commands: cmd_add_context, cmd_rm_context, cmd_clear_context.   *)
(***************************************************************************)
\* what the user may type after add-context / rm-context
ContextArgs == {<<>>, APy, <<".", "/">> \o APy, BPy}

RECURSIVE JoinWith(_, _)
\* sep.join(parts)
JoinWith(parts, sep) ==
  IF parts = <<>> THEN <<>>
  ELSE IF Len(parts) = 1 THEN parts[1]
  ELSE parts[1] \o sep \o JoinWith(Tail(parts), sep)

\* str(Path(args)) for a relative path: empty and "." components are dropped
PathStr(args) ==
  LET parts == StrSplit(args, <<"/">>)
      kept == SelectSeq(parts, LAMBDA c : c # <<>> /\ c # <<".">>)
  IN  IF kept = <<>> THEN "." ELSE Join(JoinWith(kept, <<"/">>))

\* (repo_path / file_path).exists()
PathExists(wt, path) == path = "." \/ (path \in Files /\ wt[path].exists)

SaveFaults == {"none", "save_open", "save_dump"}

\* a command found its argument unusable and returned
RejectedArg(op, arg, cause) ==
  /\ last' = Last(op, arg, "rejected", cause)
  /\ UNCHANGED <<session, session_file, heads, active_branch, commits, index,
                 worktree>>

\* a command changed the session in memory to s and then called _save_session
SessionBecomes(op, arg, s, fault) ==
  /\ session' = s
  /\ session_file' = SaveSessionFile(s, session_file, fault)
  /\ last' = Last(op, arg, IF SaveRaises(s, fault) THEN "raised" ELSE "none",
                  IF SaveRaises(s, fault) THEN "save" ELSE "none")
  /\ UNCHANGED <<heads, active_branch, commits, index, worktree>>

\* cmd_add_context
CmdAddContext(args, fault) ==
  /\ running
  /\ IF session = None THEN Rejected("add-context", "no_session")
     ELSE IF args = <<>> THEN Rejected("add-context", "no_path")
     ELSE IF ~PathExists(worktree, PathStr(args))
     THEN RejectedArg("add-context", args, "not_found")
     ELSE SessionBecomes("add-context", args,
                         [session EXCEPT !.context_files = @ \cup {PathStr(args)}],
                         fault)
  /\ UNCHANGED running

\* cmd_rm_context
CmdRmContext(args, fault) ==
  /\ running
  /\ IF session = None THEN Rejected("rm-context", "no_session")
     ELSE IF args = <<>> THEN Rejected("rm-context", "no_path")
     ELSE IF Join(args) \notin session.context_files
     THEN RejectedArg("rm-context", args, "not_in_context")
     ELSE SessionBecomes("rm-context", args,
                         [session EXCEPT !.context_files = @ \ {Join(args)}],
                         fault)
  /\ UNCHANGED running

\* cmd_clear_context
CmdClearContext(fault) ==
  /\ running
  /\ IF session = None THEN Rejected("clear-context", "no_session")
     ELSE SessionBecomes("clear-context", <<>>,
                         [session EXCEPT !.context_files = {}], fault)
  /\ UNCHANGED running

\* add-context, rm-context, clear-context
Context ==
  \/ \E args \in ContextArgs, fault \in SaveFaults : CmdAddContext(args, fault)
  \/ \E args \in ContextArgs, fault \in SaveFaults : CmdRmContext(args, fault)
  \/ \E fault \in SaveFaults : CmdClearContext(fault)

(***************************************************************************)
(* Direct calls of the session store: _save_session, _load_session,        *)
(* clear_session.                                                          *)
(***************************************************************************)
\* self._save_session()
SaveSession(fault) ==
  /\ running
  /\ session_file' = SaveSessionFile(session, session_file, fault)
  /\ last' = Last("save", "", IF SaveRaises(session, fault) THEN "raised" ELSE "None",
                  IF session = None THEN "no_session"
                  ELSE IF SaveRaises(session, fault) THEN "save" ELSE "none")
  /\ UNCHANGED <<running, session, heads, active_branch, commits, index, worktree>>

\* self.session = self._load_session()
LoadSessionCall(readFails) ==
  /\ running
  /\ session' = LoadSession(session_file, readFails)
  /\ last' = Last("load", "", "none",
                  IF session_file.kind = "absent" THEN "absent"
                  ELSE IF readFails \/ ~PickleLoads(session_file) THEN "corrupt"
                  ELSE "none")
  /\ UNCHANGED <<running, session_file, heads, active_branch, commits, index,
                 worktree>>

\* self.clear_session()
ClearSession ==
  /\ running
  /\ session' = None
  /\ session_file' = ClearSessionFile(session_file)
  /\ last' = [Stopped("clear", session) EXCEPT !.ret = "None"]
  /\ UNCHANGED <<running, heads, active_branch, commits, index, worktree>>

\* the session store driven directly
SessionStore ==
  \/ \E fault \in SaveFaults : SaveSession(fault)
  \/ \E readFails \in BOOLEAN : LoadSessionCall(readFails)
  \/ ClearSession

\* the life of the process and of the session
Lifecycle ==
  \/ \E readFails \in BOOLEAN, cfg \in ConfigFiles : Start(readFails, cfg)
  \/ \E how \in {"exit", "eof", "signal"} : Exit(how)
  \/ Kill
  \/ \E args \in NewBranchArgs, now \in Times, fault \in CreateFaults :
       CmdNewBranch(args, now, fault)

\* commit and rollback
Versioning ==
  \/ \E args \in {"", "msg"}, fault \in CommitFaults : CmdCommit(args, fault)
  \/ \E fault \in RollbackFaults : CmdRollback(fault)

\* the program: the commands of the REPL
Next ==
  \/ Lifecycle
  \/ Versioning
  \/ \E args \in {"", "p"}, reply \in BackendReplies, failAt \in 0..MaxEdits :
       CmdPrompt(args, reply, failAt)
  \/ \E confirm \in {"yes", "no"}, fault \in MergeFaults : CmdMerge(confirm, fault)
  \/ CmdShell

Spec == Init /\ [][Next]_vars

\* the prompt cycle: the tool is started, a branch is created, and answers
\* of every layout are parsed and applied
NextPrompt ==
  \/ \E readFails \in BOOLEAN, cfg \in ConfigFiles : Start(readFails, cfg)
  \/ \E how \in {"exit"} : Exit(how)
  \/ \E args \in NewBranchArgs, now \in Times, fault \in {"none"} :
       CmdNewBranch(args, now, fault)
  \/ \E args \in {"p"}, reply \in ShapedReplies, failAt \in 0..MaxEdits :
       CmdPrompt(args, reply, failAt)

SpecPrompt == Init /\ [][NextPrompt]_vars

\* every command of the REPL that changes the repository or the session,
\* typed in any order, in an environment without I/O failures
NextCommands ==
  \/ \E cfg \in {[kind |-> "absent"]} : Start(FALSE, cfg)
  \/ \E how \in {"exit"} : Exit(how)
  \/ \E args \in NewBranchArgs, now \in Times : CmdNewBranch(args, now, "none")
  \/ \E args \in {"", "p"}, reply \in BackendReplies : CmdPrompt(args, reply, 0)
  \/ \E args \in {"", "msg"} : CmdCommit(args, "none")
  \/ \E fault \in {"none"} : CmdRollback(fault)
  \/ \E confirm \in {"yes", "no"} : CmdMerge(confirm, "none")
  \/ \E args \in ContextArgs : CmdAddContext(args, "none")
  \/ \E args \in ContextArgs : CmdRmContext(args, "none")
  \/ \E fault \in {"none"} : CmdClearContext(fault)

SpecCommands == Init /\ [][NextCommands]_vars

\* the session's history and the rows of its log hold fewer than n records
HistoryBelow(n) ==
  session # None =>
    /\ Len(session.changes_history) < n
    /\ Len(worktree[DocPath(session.branch)].data) <= n

\* the session bookkeeping: the context commands, and a caller of the tool
\* that records changes and drives the session store (no command of the REPL
\* calls update_documentation)
NextTool ==
  \/ Lifecycle
  \/ Versioning
  \/ Context
  \/ SessionStore
  \/ \E prompt \in Prompts, changes \in ChangedPaths, now \in Times,
        fault \in DocFaults :
       /\ HistoryBelow(MaxHistory)
       /\ UpdateDocumentation(prompt, changes, HeadCommit, now, fault)

SpecTool == Init /\ [][NextTool]_vars

\* one session from its creation on, with every operation going well: the
\* commands that commit, roll back and merge, the context commands, and a
\* caller that records changes and saves and loads the session
NextHistory ==
  \/ \E cfg \in {[kind |-> "absent"]} : Start(FALSE, cfg)
  \/ Kill
  \/ \E args \in NewBranchArgs, now \in Times : CmdNewBranch(args, now, "none")
  \/ \E args \in {"msg"} : CmdCommit(args, "none")
  \/ \E fault \in {"none"} : CmdRollback(fault)
  \/ \E confirm \in {"yes"} : CmdMerge(confirm, "none")
  \/ \E args \in {APy} : CmdAddContext(args, "none")
  \/ \E args \in {APy} : CmdRmContext(args, "none")
  \/ \E fault \in {"none"} : CmdClearContext(fault)
  \/ \E fault \in {"none"} : SaveSession(fault)
  \/ \E readFails \in {FALSE} : LoadSessionCall(readFails)
  \/ \E prompt \in Prompts, changes \in ChangedPaths, now \in Times,
        fault \in DocFaults :
       /\ HistoryBelow(MaxRecords)
       /\ UpdateDocumentation(prompt, changes, HeadCommit, now, fault)

SpecHistory == Init /\ [][NextHistory]_vars

(***************************************************************************)
(* Properties.                                                              *)
(***************************************************************************)

\* the step was a call of create_branch(last'.arg)
CreateBranchStep == last'.op = "new-branch"

\* C1: create_branch(name) with name already a branch returns False (it does
\* not raise) and changes nothing: the branches, the checked-out branch, the
\* session in memory, the session file, the documentation logs and the rest
\* of the work tree are as before the call.  (The tool holds its session in
\* one slot, so no state has two.)
C1_ExistingBranchChangesNothing ==
  [][(CreateBranchStep /\ last'.arg \in DOMAIN heads)
       => /\ last'.ret = "False"
          /\ UNCHANGED <<heads, active_branch, session, session_file,
                         worktree, index, commits>>]_vars

\* C1 happens: a session is active and new-branch names its own branch
C1_Witness ==
  /\ last.op = "new-branch" /\ last.cause = "exists"
  /\ session # None /\ session.branch = last.arg
  /\ session_file.kind = "pickle"

\* C2: whenever a step of create_branch fails (branch creation, checkout,
\* session save, documentation log) and it returns False, no session for the
\* requested branch exists afterwards, in memory or in the session file, and
\* a call made with no session leaves no session
C2_FailedCreateLeavesNoSession ==
  [][(CreateBranchStep /\ last'.ret = "False" /\ last'.arg \notin DOMAIN heads)
       => /\ session' = None \/ session'.branch # last'.arg
          /\ session_file'.kind = "pickle"
               => session_file'.state.branch # last'.arg
          /\ session = None => session' = None]_vars

\* C3: a session active when the process stops through exit, quit, end of
\* input, a handled signal or a fatal error is the session the next process
\* loads: same branch, context files, change history and creation time
C3_SessionSurvivesRestart ==
  [][(last.op = "exit" /\ last.stopped # None
        /\ last'.op = "start" /\ last'.cause = "none")
       => session' = last.stopped]_vars

\* C4: every commit that returns a commit id appends exactly one record to
\* the session's change history, whose commit field is that id
C4_CommitAppendsRecord ==
  [][(last'.op = "commit" /\ last'.ret = "hash")
       => /\ session' # None
          /\ Len(session'.changes_history) = Len(session.changes_history) + 1
          /\ session'.changes_history[Len(session'.changes_history)].commit
               = heads'[active_branch']]_vars

\* C5: update_documentation in an active session appends the record to the
\* change history and saves the session even when the write to the
\* documentation log fails
C5_RecordSurvivesDocFailure ==
  [][(last'.op = "update_documentation" /\ session # None
        /\ last'.cause = "doc")
       => /\ Len(session'.changes_history) = Len(session.changes_history) + 1
          /\ session_file' = PickleDump(session')]_vars

\* C6: when merge_to_main hits a merge conflict it returns False and the
\* repository is checked out on the branch it was on before the call, main
\* and the session branch (every branch) point to the commits they pointed
\* to, and the session in memory and on disk is unchanged
C6_ConflictRestores ==
  [][(last'.op = "merge" /\ last'.cause \in {"conflict", "checkout_back"})
       => /\ last'.ret = "False"
          /\ active_branch' = active_branch
          /\ heads' = heads
          /\ session' = session /\ session_file' = session_file]_vars

\* C6 happens: the merge was started on the session branch, main had moved
C6_Witness ==
  /\ last.op = "merge" /\ last.cause = "conflict"
  /\ session # None /\ active_branch = session.branch
  /\ active_branch # "main"

\* C7: when merge_to_main fails for another reason than a conflict (the
\* checkout of main fails, or the merge fails and leaves no merge to abort)
\* it returns False without raising, on the original branch, main unchanged
C7_OtherMergeFailureRecovers ==
  [][(last'.op = "merge"
        /\ last'.cause \in {"checkout", "merge", "overwrite", "unrelated",
                            "no_branch"})
       => /\ last'.ret = "False"
          /\ active_branch' = active_branch
          /\ heads'["main"] = heads["main"]]_vars

\* C8: rollback with HEAD on a commit without parent returns False (it does
\* not raise) and HEAD, the checked-out branch, the work tree and the
\* session are as before the call
C8_RollbackWithoutParent ==
  [][(last'.op = "rollback" /\ FirstParent(HeadCommit) = 0)
       => /\ last'.ret = "False"
          /\ UNCHANGED <<heads, active_branch, worktree, index, session,
                         session_file>>]_vars

\* C8 happens: rollback was refused on a root commit with pending edits
C8_Witness ==
  /\ last.op = "rollback" /\ last.cause = "no_parent"
  /\ worktree # index

\* C9: whenever create_branch, commit_changes, rollback or merge_to_main
\* reports failure, the branches, the commit of each branch and the
\* checked-out branch are what they were before the call
C9_FailureLeavesRepository ==
  [][(last'.op \in {"new-branch", "commit", "rollback", "merge"}
        /\ last'.ret \in {"False", "None"})
       => heads' = heads /\ active_branch' = active_branch]_vars

\* C10: every mutating command accepted while a session is active runs with
\* the session's branch checked out
C10_MutationsOnSessionBranch ==
  [][(last'.op \in {"prompt", "commit", "rollback", "merge"}
        /\ last'.ret # "rejected" /\ session # None)
       => active_branch = session.branch]_vars

\* the commands that change the session and save it
MutatingOps ==
  {"new-branch", "add-context", "rm-context", "clear-context",
   "update_documentation"}

\* C11: after every command that changed the session in memory (new-branch,
\* add-context, rm-context, clear-context, update_documentation) and whose
\* write of the session file did not fail, the session file is the dump of the
\* session in memory and loads back as that session (branch, context files,
\* change history, creation time); after clear_session there is no session
\* file and no session in memory
C11_FileFollowsSession ==
  [][/\ (last'.op \in MutatingOps /\ session' # session /\ last'.cause # "save")
          => /\ session_file' = PickleDump(session')
             /\ LoadSession(session_file', FALSE) = session'
     /\ (last'.op \in {"clear", "exit"})
          => session' = None /\ session_file' = NoFile]_vars

\* C11 happens: a context file was removed from a session that holds a change
\* record, and the file on disk holds that session
C11_Witness ==
  /\ last.op = "rm-context" /\ last.ret = "none"
  /\ session # None /\ session.changes_history # <<>>
  /\ session_file.kind = "pickle"
  /\ session_file.state.changes_history = session.changes_history

\* C12: _load_session right after a _save_session that succeeded yields a
\* session equal to the one saved in its four fields (branch, context files
\* as a set, change history in order, creation time), and so does a load of
\* the dump of any session the tool holds; _save_session with no session
\* returns without raising and leaves the session file as it was
C12_SaveLoadRoundTrip ==
  [][/\ (last.op = "save" /\ last.cause = "none"
           /\ last'.op = "load" /\ last'.cause = "none")
          => session' = session
     /\ session # None
          => LoadSession(SaveSessionFile(session, session_file, "none"), FALSE)
               = session
     /\ (last'.op = "save" /\ session = None)
          => last'.ret = "None" /\ session_file' = session_file]_vars

\* C12 happens: a session with a context file and a change record was loaded
\* back from the file
C12_Witness ==
  /\ last.op = "load" /\ last.cause = "none"
  /\ session # None /\ session.context_files # {}
  /\ session.changes_history # <<>>

\* C13: whenever merge_to_main is called with no main branch or with
\* uncommitted changes in the work tree (modified tracked files, staged
\* changes, or new files not yet committed), it returns False and the
\* checked-out branch, every branch's commit, the index, the work tree and
\* the session are as before the call
C13_MergePreconditionsFirst ==
  [][(last'.op = "merge" /\ last'.ret # "rejected"
        /\ ("main" \notin DOMAIN heads \/ IsDirty \/ UntrackedFiles # {}))
       => /\ last'.ret = "False"
          /\ UNCHANGED <<active_branch, heads, index, worktree, session,
                         session_file>>]_vars

\* C14: clear_session returns without raising whatever the state (session
\* active or not, session file present or absent) and leaves no session in
\* memory and no session file; a second clear_session right after changes
\* nothing; _load_session right after returns no session
C14_ClearIdempotent ==
  [][/\ last'.op = "clear"
          => last'.ret = "None" /\ session' = None /\ session_file' = NoFile
     /\ (last.op = "clear" /\ last'.op = "clear")
          => UNCHANGED <<running, session, session_file, heads, active_branch,
                         commits, index, worktree>>
     /\ (last.op = "clear" /\ last'.op = "load")
          => session' = None]_vars

\* C14 happens: clear_session ran while a session was active
C14_Witness ==
  /\ last.op = "clear" /\ last.stopped # None
  /\ session = None /\ session_file = NoFile

\* C15: _load_session, at startup (once the constructor reaches it) or
\* called directly, returns no session when the session file is absent,
\* cannot be read or is not a pickle; it does not raise, and the process
\* started that way is running with no session
C15_LoadAbsentOrCorrupt ==
  [][(last'.op \in {"start", "load"} /\ last'.cause # "config"
        /\ (session_file.kind \in {"absent", "corrupt"}
              \/ last'.cause \in {"read_error", "corrupt"}))
       => /\ last'.ret = "none"
          /\ session' = None
          /\ running']_vars

\* C15 happens: the tool started on a session file that is not a pickle
C15_Witness ==
  /\ last.op = "start" /\ session_file.kind = "corrupt"
  /\ running /\ session = None

\* the configuration file a start step found
ConfigOf(kind) == CHOOSE c \in ConfigFiles : c.kind = kind

\* C16: loading the configuration never stops the start of the tool: with no
\* config file, and with a config file that cannot be read or parsed, the
\* process comes up and its structural patterns are the defaults
C16_ConfigLoadNeverFails ==
  [][(last'.op = "start" /\ last'.arg \in {"absent", "unparseable", "unreadable"})
       => /\ last'.ret # "raised"
          /\ running'
          /\ ~LoadConfigRaises(ConfigOf(last'.arg))
          /\ StructuralPatterns(ConfigOf(last'.arg)) = DefaultPatterns]_vars

RECURSIVE ExpectedEdits(_, _)
\* the edits an answer of the given layout asks for: one per well-formed
\* section, in the order of the sections; a later section for a path already
\* named replaces the content of that path's edit
ExpectedEdits(kinds, n) ==
  IF n = 0 THEN <<>>
  ELSE LET e == ExpectedEdits(kinds, n - 1)
           edit == [path |-> Join(SectionPath(n)), content |-> SectionContent(n)]
       IN  IF kinds[n] # "ok" THEN e
           ELSE IF \E i \in 1..Len(e) : e[i].path = edit.path
           THEN [i \in 1..Len(e) |-> IF e[i].path = edit.path THEN edit ELSE e[i]]
           ELSE Append(e, edit)

\* C17: for an answer made of an optional explanation and FILE: sections,
\* the parser yields exactly one edit path -> content per well-formed section
\* and nothing for the explanation or for a section with no fence or with an
\* unterminated fence, whatever the other sections are; the prompt that gets
\* the answer writes exactly those edits
C17_SectionsIndependent ==
  [][(last'.op = "prompt" /\ last'.ret # "rejected")
       => \A d \in Shapes :
            Render(d) = last'.arg
              => LET want == ExpectedEdits(d.kinds, Len(d.kinds))
                 IN  /\ ParseOllamaResponse(last'.arg) = want
                     /\ (last'.cause = "no_changes") <=> (want = <<>>)
                     /\ last'.ret = "True"
                          => worktree' = WriteFiles(worktree, want, Len(want))]_vars

\* C17 happens: an explanation, a well-formed section for a.py and a section
\* for b.py with an unterminated fence gave exactly the edit of a.py
C17_Witness ==
  /\ last.op = "prompt" /\ last.ret = "True"
  /\ last.arg = Render([prefix |-> <<"x", "\n">>, kinds |-> <<"ok", "open">>])
  /\ worktree["a.py"] = File(<<"1">>)
  /\ ~worktree["b.py"].exists

\* C18: when the answer holds no well-formed section (no FILE: section, or
\* only sections without a closed fence), the parse raises, the prompt ends
\* with an error, and nothing is applied: the work tree, the index, the
\* branches and the session in memory and on disk are unchanged
C18_NoEditsNothingApplied ==
  [][(last'.op = "prompt" /\ last'.ret # "rejected"
        /\ \E d \in Shapes : /\ Render(d) = last'.arg
                              /\ ExpectedEdits(d.kinds, Len(d.kinds)) = <<>>)
       => /\ last'.ret = "raised" /\ last'.cause = "no_changes"
          /\ UNCHANGED <<worktree, index, heads, active_branch, commits,
                         session, session_file>>]_vars

\* C18 happens: an answer whose two sections are both malformed was refused
C18_Witness ==
  /\ last.op = "prompt" /\ last.cause = "no_changes"
  /\ last.arg = Render([prefix |-> <<"x", "\n">>, kinds |-> <<"open", "nofence">>])
  /\ session # None

\* C19: apply_changes returns True only when every write of the batch took
\* effect; when write number k fails it returns False (it does not raise),
\* the files of the edits before k hold their new content, and the file of
\* edit k and of every later edit is as it was
C19_PartialApplyKept ==
  [][(last'.op = "prompt" /\ last'.ret \in {"True", "False"})
       => LET edits == ParseOllamaResponse(last'.arg)
              written(i) == worktree'[edits[i].path] = File(edits[i].content)
              untouched(i) == worktree'[edits[i].path] = worktree[edits[i].path]
          IN  /\ last'.ret = "True" => \A i \in 1..Len(edits) : written(i)
              /\ last'.ret = "False"
                   => \E k \in 1..Len(edits) :
                        /\ last'.cause = "write" \o ToString(k)
                        /\ \A i \in 1..(k - 1) : written(i)
                        /\ \A i \in k..Len(edits) : untouched(i)]_vars

\* C19 happens: of two edits the first was written and the second failed
C19_Witness ==
  /\ last.op = "prompt" /\ last.ret = "False" /\ last.cause = "write2"
  /\ worktree["a.py"] = File(<<"1">>)
  /\ ~worktree["b.py"].exists

\* h is the beginning of g
IsPrefix(h, g) == Len(h) <= Len(g) /\ SubSeq(g, 1, Len(h)) = h

\* C20: within a session, every operation other than create_branch and
\* clear_session (commit, rollback, merge, add-context, rm-context,
\* clear-context, update_documentation, save, and a load that follows a
\* save) leaves the change history it found as the beginning of the change
\* history it leaves: records are only added at the end, none is changed or
\* removed, and a rollback keeps the record of the commit it undoes
C20_HistoryAppendOnly ==
  [][/\ (session # None /\ session' # None
           /\ last'.op \in {"commit", "rollback", "merge", "add-context",
                             "rm-context", "clear-context",
                             "update_documentation", "save"})
          => IsPrefix(session.changes_history, session'.changes_history)
     /\ (session # None /\ last.op = "save" /\ last.cause = "none"
           /\ last'.op = "load")
          => /\ session' # None
             /\ session'.changes_history = session.changes_history]_vars

\* C20 happens: a commit was recorded, then another record was added, then
\* the commit was rolled back, and both records are still there
C20_Witness ==
  /\ last.op = "rollback" /\ last.ret = "True"
  /\ session # None /\ Len(session.changes_history) = 2
  /\ \A b \in DOMAIN heads : heads[b] # session.changes_history[1].commit

\* C21: with no session, prompt, commit, rollback, merge, add-context,
\* rm-context and clear-context do nothing: the command reports no success
\* and the work tree, the index, every branch's commit, the checked-out
\* branch and the session in memory and on disk are as before
C21_NoSessionRejects ==
  [][(running /\ session = None
        /\ last'.op \in {"prompt", "commit", "rollback", "merge", "add-context",
                          "rm-context", "clear-context"})
       => /\ last'.ret \notin {"True", "hash"}
          /\ UNCHANGED <<worktree, index, heads, active_branch, commits,
                         session, session_file>>]_vars

\* C22: a rollback that succeeds in a session moves the session's branch
\* back to the parent of its last commit and moves no other branch (main in
\* particular); and when it is used to discard uncommitted edits of tracked
\* files, no branch moves at all
C22_RollbackOnlySessionCommit ==
  [][(last'.op = "rollback" /\ last'.ret = "True" /\ session # None)
       => /\ heads'[session.branch] = FirstParent(heads[session.branch])
          /\ \A b \in DOMAIN heads \ {session.branch} : heads'[b] = heads[b]
          /\ IndexDiffNone # {} => heads' = heads]_vars

\* C23: for a path argument p, rm-context p right after an add-context p
\* that added the file removes that entry again, in memory and in the session
\* file, and leaves the other entries; add-context of a path that does not
\* exist leaves the session unchanged; add-context p twice leaves the same
\* context files as once
C23_ContextRoundTrip ==
  [][/\ (last.op = "add-context" /\ last.ret = "none"
           /\ last'.op = "rm-context"
           /\ last'.cause \in {"none", "not_in_context"}
           /\ last'.arg = last.arg)
          => /\ last'.ret = "none"
             /\ session'.context_files
                  = session.context_files \ {PathStr(last.arg)}
             /\ session_file' = PickleDump(session')
     /\ (last'.op = "add-context" /\ last'.cause = "not_found")
          => UNCHANGED <<session, session_file>>
     /\ (last.op = "add-context" /\ last.ret = "none"
           /\ last'.op = "add-context" /\ last'.ret = "none"
           /\ last'.arg = last.arg)
          => session'.context_files = session.context_files]_vars

====
